---- MODULE Spec2Model ----
(***************************************************************************)
(* GGUF loader and pipeline of mistralrs-core (src/pipeline/gguf.rs):      *)
(* GgufArchitecture::from_str, GgufLoader::_setup_model and                *)
(* GgufPipeline::{forward, is_xlora, eos_tok, get_non_granular_state}.     *)
(*                                                                         *)
(* Rust values are modelled as follows.                                    *)
(*   Option<T>      None = <<>>, Some(v) = <<v>>                           *)
(*   Result / panic a record with an "outcome" field: "Ok", "Err" or       *)
(*                  "Panic" (an unwrap() of None or of Err, an index of a  *)
(*                  missing key, unreachable!()): a panic unwinds, it is   *)
(*                  not a value returned to the caller                     *)
(*   String         a TLA+ string; format!() is \o; the backquote of the  *)
(*                  messages is written ' (a TLA+ string cannot hold one)  *)
(*   Tensor         an opaque name                                         *)
(***************************************************************************)
EXTENDS Integers, Sequences, FiniteSets, TLC

(***************************************************************************)
(* Bounds of the model.                                                    *)
(***************************************************************************)
\* tgt_non_granular_index is drawn from None and Some(0..MaxTgt)
MaxTgt == 1
\* token ids of the tokenizer vocabulary are 0..MaxTokId
MaxTokId == 1
\* the shared non_granular_index counter is advanced up to MaxCounter
MaxCounter == 2

None == <<>>
Some(v) == <<v>>
IsSome(o) == o # <<>>
Unwrap(o) == o[1]

(***************************************************************************)
(* enum Model, enum GgufArchitecture, ModelKind                            *)
(***************************************************************************)
Model == {"Llama", "Phi2", "XLoraLlama"}

GgufArchitecture ==
    {"Llama", "Mpt", "Gptneox", "Gptj", "Gpt2", "Bloom", "Falcon", "Mamba", "Rwkv", "Phi2"}

\* The three kinds _setup_model matches by name, and "Normal" for the kinds
\* that fall to its _ => unreachable!() arm.
ModelKind == {"QuantizedGGUF", "XLoraGGUF", "LoraGGUF", "Normal"}

(***************************************************************************)
(* Errors.  kind: the Rust error type or constructor; msg: its message;    *)
(* path: the path a candle Error::WithPath carries, None for the others.   *)
(***************************************************************************)
NoErr == [kind |-> "", msg |-> "", path |-> None]
IoError == [kind |-> "io::Error", msg |-> "No such file or directory (os error 2)", path |-> None]
WithPath(p) == [kind |-> "candle::Error::WithPath", msg |-> "gguf read failed", path |-> Some(p)]
MsgError(m) == [kind |-> "anyhow::Error::msg", msg |-> m, path |-> None]
CandleError(m) == [kind |-> "candle::Error", msg |-> m, path |-> None]
TokenizerError(m) == [kind |-> "TokenizerError", msg |-> "'" \o m \o "'", path |-> None]

(***************************************************************************)
(* impl FromStr for GgufArchitecture                                       *)
(***************************************************************************)
\* from_str with the "gptj" arm yielding Gpt2
from_str_wrong_arm(s) ==
    CASE s = "llama" -> [ok |-> TRUE, val |-> "Llama", err |-> ""]
      [] s = "mpt" -> [ok |-> TRUE, val |-> "Mpt", err |-> ""]
      [] s = "gptneox" -> [ok |-> TRUE, val |-> "Gptneox", err |-> ""]
      [] s = "gptj" -> [ok |-> TRUE, val |-> "Gpt2", err |-> ""]
      [] s = "gpt2" -> [ok |-> TRUE, val |-> "Gpt2", err |-> ""]
      [] s = "bloom" -> [ok |-> TRUE, val |-> "Bloom", err |-> ""]
      [] s = "falcon" -> [ok |-> TRUE, val |-> "Falcon", err |-> ""]
      [] s = "mamba" -> [ok |-> TRUE, val |-> "Mamba", err |-> ""]
      [] s = "rwkv" -> [ok |-> TRUE, val |-> "Rwkv", err |-> ""]
      [] s = "phi2" -> [ok |-> TRUE, val |-> "Phi2", err |-> ""]
      [] OTHER -> [ok |-> FALSE, val |-> "",
                   err |-> "Unknown GGUF architecture '" \o s \o "'"]

\* lines 124-138
from_str(s) ==
    CASE s = "llama" -> [ok |-> TRUE, val |-> "Llama", err |-> ""]
      [] s = "mpt" -> [ok |-> TRUE, val |-> "Mpt", err |-> ""]
      [] s = "gptneox" -> [ok |-> TRUE, val |-> "Gptneox", err |-> ""]
      [] s = "gptj" -> [ok |-> TRUE, val |-> "Gptj", err |-> ""]
      [] s = "gpt2" -> [ok |-> TRUE, val |-> "Gpt2", err |-> ""]
      [] s = "bloom" -> [ok |-> TRUE, val |-> "Bloom", err |-> ""]
      [] s = "falcon" -> [ok |-> TRUE, val |-> "Falcon", err |-> ""]
      [] s = "mamba" -> [ok |-> TRUE, val |-> "Mamba", err |-> ""]
      [] s = "rwkv" -> [ok |-> TRUE, val |-> "Rwkv", err |-> ""]
      [] s = "phi2" -> [ok |-> TRUE, val |-> "Phi2", err |-> ""]
      [] OTHER -> [ok |-> FALSE, val |-> "",
                   err |-> "Unknown GGUF architecture '" \o s \o "'"]

(***************************************************************************)
(* GgufPipeline::is_xlora and GgufPipeline::get_non_granular_state         *)
(***************************************************************************)
\* is_xlora without the is_lora test
is_xlora_ignores_is_lora(p) ==
    CASE p.model \in {"Llama", "Phi2"} -> FALSE
      [] p.model = "XLoraLlama" -> TRUE

\* lines 423-428 and 435-437
is_xlora(p) ==
    CASE p.model \in {"Llama", "Phi2"} -> FALSE
      [] p.model = "XLoraLlama" -> ~p.is_lora

get_non_granular_state(p) == None

eos_tok(p) == p.eos_tok

(***************************************************************************)
(* Inputs of a load.                                                       *)
(***************************************************************************)
\* paths.get_weight_filenames().first()
WeightPaths == {"a.gguf", "b.gguf"}

\* model.metadata["general.architecture"]: the ten known tags and two others
KnownTags ==
    {"llama", "mpt", "gptneox", "gptj", "gpt2", "bloom", "falcon", "mamba", "rwkv", "phi2"}
Tags == KnownTags \cup {"Llama", "phi3"}

\* The first weight file: it cannot be opened, it opens and gguf_file::Content::read
\* fails, or it is read; a container that is read holds the architecture tag, or none
\* (the metadata key is missing, or its value is no string).
Containers ==
    {[status |-> "noopen", tag |-> None], [status |-> "malformed", tag |-> None]}
    \cup {[status |-> "ok", tag |-> t] : t \in {None} \cup {Some(g) : g \in Tags}}

\* The Option fields of ModelPaths, each present (TRUE) or None (FALSE).
AdapterPaths ==
    [adapter_filenames : BOOLEAN, adapter_configs : BOOLEAN, classifier_path : BOOLEAN,
     classifier_config : BOOLEAN, ordering : BOOLEAN]

\* tokenizer.get_vocab(true): token string -> id, over the two strings the load looks up
Toks == {"</s>", "<|eot_id|>"}
TokIds == 0..MaxTokId
Vocabs == UNION {[d -> TokIds] : d \in SUBSET Toks}

\* What the collaborators of a load answer: from_mmaped_safetensors, the from_gguf
\* constructors and Tokenizer::from_file each succeed or fail.  The load ends at the
\* first failure, so at most one of them is drawn as failing.
Answers ==
    {a \in [adapters_ok : BOOLEAN, from_gguf_ok : BOOLEAN, tokenizer_ok : BOOLEAN] :
        Cardinality({f \in {"adapters_ok", "from_gguf_ok", "tokenizer_ok"} : ~a[f]}) <= 1}

(***************************************************************************)
(* State.                                                                  *)
(*   loader      the GgufLoader (its fields never change after new)        *)
(*   last        the _setup_model call: its inputs, the answers of its     *)
(*               collaborators, the architecture it resolved, its result   *)
(*   pipeline    the GgufPipeline that call returned, None if it returned  *)
(*               none                                                      *)
(*   fwd         the latest forward call on that pipeline, None before the *)
(*               first                                                     *)
(***************************************************************************)
VARIABLES loader, last, pipeline, fwd

vars == <<loader, last, pipeline, fwd>>

\* GgufLoader: the fields _setup_model and the pipeline read
Loaders ==
    [kind : ModelKind,
     tgt_non_granular_index : {None} \cup {Some(i) : i \in 0..MaxTgt},
     no_kv_cache : BOOLEAN]

(***************************************************************************)
(* GgufLoader::_setup_model                                                *)
(***************************************************************************)
Panic == [outcome |-> "Panic", err |-> NoErr, pipeline |-> None]
Failed(e) == [outcome |-> "Err", err |-> e, pipeline |-> None]
Loaded(p) == [outcome |-> "Ok", err |-> NoErr, pipeline |-> Some(p)]

\* eos_toks without the Llama3 chat case
eos_toks_without_eot(chat_template, vocab) == <<chat_template>>

\* lines 302-307: the end-of-sequence strings handed to calculate_eos_tok
eos_toks(chat_template, vocab) ==
    <<chat_template>> \o
        (IF "<|eot_id|>" \in DOMAIN vocab THEN <<"<|eot_id|>">> ELSE <<>>)

\* calculate_eos_tok (crate::pipeline, not in gguf.rs): the ids of the strings, in
\* order, each id once.
RECURSIVE Dedup(_)
Dedup(ids) ==
    IF ids = <<>> THEN <<>>
    ELSE LET init == Dedup(SubSeq(ids, 1, Len(ids) - 1))
             x == ids[Len(ids)]
         IN IF \E i \in 1..Len(init) : init[i] = x THEN init ELSE Append(init, x)

calculate_eos_tok(toks, vocab) == Dedup([i \in 1..Len(toks) |-> vocab[toks[i]]])

\* calculate_eos_tok resolves every string through the vocabulary: a string that is
\* no key of it has no id, and the load ends without a pipeline.
eos_resolvable(toks, vocab) == \A i \in 1..Len(toks) : toks[i] \in DOMAIN vocab

\* lines 325-330
new_non_granular_state(l) ==
    IF IsSome(l.tgt_non_granular_index)
    THEN Some([non_granular_index |-> 0,
               tgt_non_granular_index |-> Unwrap(l.tgt_non_granular_index)])
    ELSE None

\* lines 298-332: the tokenizer, the chat template, the EOS ids and the pipeline.
\* deserialize_chat_template! and build_tok_trie are taken to succeed.
build_pipeline(l, model, is_lora, ans, vocab, chat_template) ==
    IF ~ans.tokenizer_ok THEN Failed(TokenizerError("tokenizer file"))
    ELSE IF ~eos_resolvable(eos_toks(chat_template, vocab), vocab)
    THEN Failed(TokenizerError("no such token"))
    ELSE Loaded([model |-> model,
                 eos_tok |-> calculate_eos_tok(eos_toks(chat_template, vocab), vocab),
                 tokenizer |-> vocab,
                 no_kv_cache |-> l.no_kv_cache,
                 chat_template |-> chat_template,
                 non_granular_state |-> new_non_granular_state(l),
                 is_lora |-> is_lora])

\* xlora_from_gguf without the match on the architecture
xlora_from_gguf_any_arch(arch, ap, ans) ==
    IF ~ap.adapter_configs \/ ~ap.ordering \/ ~ap.classifier_config
    THEN [outcome |-> "Panic", err |-> NoErr]
    ELSE IF ~ans.from_gguf_ok
    THEN [outcome |-> "Err", err |-> CandleError("from_gguf")]
    ELSE [outcome |-> "Ok", err |-> NoErr]

\* lines 253-264 and 282-293: the adapter-aware model of an architecture
xlora_from_gguf(arch, ap, ans) ==
    IF arch = "Llama"
    THEN IF ~ap.adapter_configs \/ ~ap.ordering \/ ~ap.classifier_config
         THEN [outcome |-> "Panic", err |-> NoErr]
         ELSE IF ~ans.from_gguf_ok
         THEN [outcome |-> "Err", err |-> CandleError("from_gguf")]
         ELSE [outcome |-> "Ok", err |-> NoErr]
    ELSE [outcome |-> "Err",
          err |-> MsgError("Unsupported architecture for GGUF X-LoRA '" \o arch \o "'")]

\* lines 229-296: the model variant and is_lora of (kind, arch)
build_model(kind, arch, ap, ans) ==
    CASE kind = "QuantizedGGUF" ->
           IF arch \in {"Llama", "Phi2"}
           THEN IF ans.from_gguf_ok
                THEN [outcome |-> "Ok", err |-> NoErr, model |-> arch, is_lora |-> FALSE]
                ELSE [outcome |-> "Err", err |-> CandleError("from_gguf"),
                      model |-> "", is_lora |-> FALSE]
           ELSE [outcome |-> "Err",
                 err |-> MsgError("Unsupported architecture '" \o arch \o "'"),
                 model |-> "", is_lora |-> FALSE]
      [] kind = "XLoraGGUF" ->
           IF ~ap.classifier_path \/ ~ap.adapter_filenames
           THEN [outcome |-> "Panic", err |-> NoErr, model |-> "", is_lora |-> FALSE]
           ELSE IF ~ans.adapters_ok
           THEN [outcome |-> "Err", err |-> CandleError("from_mmaped_safetensors"),
                 model |-> "", is_lora |-> FALSE]
           ELSE [outcome |-> xlora_from_gguf(arch, ap, ans).outcome,
                 err |-> xlora_from_gguf(arch, ap, ans).err,
                 model |-> "XLoraLlama", is_lora |-> FALSE]
      [] kind = "LoraGGUF" ->
           IF ~ap.adapter_filenames
           THEN [outcome |-> "Panic", err |-> NoErr, model |-> "", is_lora |-> TRUE]
           ELSE IF ~ans.adapters_ok
           THEN [outcome |-> "Err", err |-> CandleError("from_mmaped_safetensors"),
                 model |-> "", is_lora |-> TRUE]
           ELSE [outcome |-> xlora_from_gguf(arch, ap, ans).outcome,
                 err |-> xlora_from_gguf(arch, ap, ans).err,
                 model |-> "XLoraLlama", is_lora |-> TRUE]
      [] OTHER -> [outcome |-> "Panic", err |-> NoErr, model |-> "", is_lora |-> FALSE]

\* lines 220-222: open and read the first weight file
read_container(path, container) ==
    CASE container.status = "noopen" -> Failed(IoError)
      [] container.status = "malformed" -> Failed(WithPath(path))
      [] OTHER -> Loaded(container)

_setup_model(l, path, container, ap, ans, vocab, chat_template) ==
    IF read_container(path, container).outcome # "Ok"
    THEN read_container(path, container)
    ELSE IF container.tag = None THEN Panic
    ELSE IF ~from_str(Unwrap(container.tag)).ok
    THEN Failed(MsgError(from_str(Unwrap(container.tag)).err))
    ELSE LET arch == from_str(Unwrap(container.tag)).val
             m == build_model(l.kind, arch, ap, ans)
         IN CASE m.outcome = "Panic" -> Panic
              [] m.outcome = "Err" -> Failed(m.err)
              [] OTHER -> build_pipeline(l, m.model, m.is_lora, ans, vocab, chat_template)

(***************************************************************************)
(* GgufPipeline::forward                                                   *)
(***************************************************************************)
\* The errors a collaborator of forward raises.
ComputeErrors == {CandleError("shape mismatch"), CandleError("out of memory")}

\* calculate_inputs (crate::pipeline, not in gguf.rs), over every batch and both values
\* of is_prompt: the primary inputs, and the parallel full inputs only when asked
\* for them (is_xlora); each full input is built or not.
calculate_inputs(is_xlora_arg) ==
    [input_ids : {"input_ids"},
     input_ids_full : {None} \cup (IF is_xlora_arg THEN {Some("input_ids_full")} ELSE {}),
     seqlen_offsets : {"seqlen_offsets"},
     seqlen_offsets_full :
         {None} \cup (IF is_xlora_arg THEN {Some("seqlen_offsets_full")} ELSE {}),
     seqlen_offsets_kernel : {"seqlen_offsets_kernel"},
     seqlen_offsets_kernel_full :
         {None} \cup (IF is_xlora_arg THEN {Some("seqlen_offsets_kernel_full")} ELSE {}),
     context_lens : {"context_lens"}]

unwrap_or(o, d) == IF IsSome(o) THEN Unwrap(o) ELSE d

\* lines 366-385: the arguments each variant's forward receives; None marks a
\* parameter the variant's forward does not have.
llama_forward(mi) ==
    [model |-> "Llama",
     input_ids |-> mi.input_ids,
     input_ids_full |-> None,
     seqlen_offsets |-> mi.seqlen_offsets,
     seqlen_offsets_full |-> None,
     seqlen_offsets_kernel |-> Some(mi.seqlen_offsets_kernel),
     seqlen_offsets_kernel_full |-> None,
     no_kv_cache |-> None,
     non_granular_state |-> None,
     context_lens |-> mi.context_lens]

phi2_forward(mi) ==
    [model |-> "Phi2",
     input_ids |-> mi.input_ids,
     input_ids_full |-> None,
     seqlen_offsets |-> mi.seqlen_offsets,
     seqlen_offsets_full |-> None,
     seqlen_offsets_kernel |-> None,
     seqlen_offsets_kernel_full |-> None,
     no_kv_cache |-> None,
     non_granular_state |-> None,
     context_lens |-> mi.context_lens]

xlora_llama_forward(p, mi) ==
    [model |-> "XLoraLlama",
     input_ids |-> mi.input_ids,
     input_ids_full |-> Some(unwrap_or(mi.input_ids_full, mi.input_ids)),
     seqlen_offsets |-> mi.seqlen_offsets,
     seqlen_offsets_full |-> Some(unwrap_or(mi.seqlen_offsets_full, mi.seqlen_offsets)),
     seqlen_offsets_kernel |-> Some(mi.seqlen_offsets_kernel),
     seqlen_offsets_kernel_full |->
         Some(unwrap_or(mi.seqlen_offsets_kernel_full, mi.seqlen_offsets_kernel)),
     no_kv_cache |-> Some(p.no_kv_cache),
     non_granular_state |-> Some(p.non_granular_state),
     context_lens |-> mi.context_lens]

\* dispatch without the full kernel offsets
dispatch_kernel_full_dropped(p, mi) ==
    CASE p.model = "Llama" -> llama_forward(mi)
      [] p.model = "Phi2" -> phi2_forward(mi)
      [] p.model = "XLoraLlama" ->
           [xlora_llama_forward(p, mi) EXCEPT
              !.seqlen_offsets_kernel_full = Some(mi.seqlen_offsets_kernel)]

dispatch(p, mi) ==
    CASE p.model = "Llama" -> llama_forward(mi)
      [] p.model = "Phi2" -> phi2_forward(mi)
      [] p.model = "XLoraLlama" -> xlora_llama_forward(p, mi)

\* The adapter-aware model advances the shared counter of a state it is handed
\* (crate::xlora_models, not in gguf.rs): it leaves it or adds one.
advance(p, by) ==
    IF p.model = "XLoraLlama" /\ IsSome(p.non_granular_state)
    THEN [p EXCEPT !.non_granular_state =
             Some([Unwrap(p.non_granular_state) EXCEPT
                     !.non_granular_index =
                         IF @ + by <= MaxCounter THEN @ + by ELSE @])]
    ELSE p

\* The record of a forward call: the flag calculate_inputs was given, what it
\* answered, what the variant received, the error a collaborator raised, and how
\* the call ended.
ForwardCall(asked, inputs, call, outcome, err, raised) ==
    [is_xlora_arg |-> asked, inputs |-> inputs, call |-> call,
     outcome |-> outcome, err |-> err, raised |-> raised]

(***************************************************************************)
(* The specification.                                                      *)
(***************************************************************************)
Init ==
    /\ loader \in Loaders
    /\ last = None
    /\ pipeline = None
    /\ fwd = None

\* Loader::_setup_model on some paths, in some environment.  The call reads the
\* loader and its arguments only, so a second call on the same loader adds no
\* result the first cannot give: the loader is followed through one load.
SetupModel ==
    /\ last = None
    /\ \E path \in WeightPaths, container \in Containers, ap \in AdapterPaths,
          ans \in Answers, vocab \in Vocabs, chat_template \in Toks :
        LET r == _setup_model(loader, path, container, ap, ans, vocab, chat_template)
        IN /\ last' = Some([path |-> path, container |-> container, paths |-> ap,
                            answers |-> ans,
                            arch |-> IF container.tag = None THEN None
                                     ELSE Some(from_str(Unwrap(container.tag))),
                            outcome |-> r.outcome, err |-> r.err])
           /\ pipeline' = r.pipeline
           /\ fwd' = None
           /\ UNCHANGED loader

\* Pipeline::forward, calculate_inputs failing: lines 358-365
ForwardInputsFail ==
    /\ pipeline # None
    /\ \E e \in ComputeErrors :
        /\ fwd' = Some(ForwardCall(is_xlora(Unwrap(pipeline)), None, None,
                                   "Panic", NoErr, Some(e)))
        /\ UNCHANGED <<loader, last, pipeline>>

\* Pipeline::forward, the variant's forward failing
ForwardModelFail ==
    /\ pipeline # None
    /\ \E e \in ComputeErrors,
          mi \in calculate_inputs(is_xlora(Unwrap(pipeline))) :
        /\ fwd' = Some(ForwardCall(is_xlora(Unwrap(pipeline)), Some(mi),
                                   Some(dispatch(Unwrap(pipeline), mi)),
                                   "Err", e, Some(e)))
        /\ UNCHANGED <<loader, last, pipeline>>

\* Pipeline::forward returning the variant's tensor
ForwardOk ==
    /\ pipeline # None
    /\ \E by \in {0, 1},
          mi \in calculate_inputs(is_xlora(Unwrap(pipeline))) :
        /\ fwd' = Some(ForwardCall(is_xlora(Unwrap(pipeline)), Some(mi),
                                   Some(dispatch(Unwrap(pipeline), mi)),
                                   "Ok", NoErr, None))
        /\ pipeline' = Some(advance(Unwrap(pipeline), by))
        /\ UNCHANGED <<loader, last>>

Next == SetupModel \/ ForwardInputsFail \/ ForwardModelFail \/ ForwardOk

Spec == Init /\ [][Next]_vars

(***************************************************************************)
(* Properties.                                                             *)
(***************************************************************************)
L == Unwrap(last)
P == Unwrap(pipeline)
F == Unwrap(fwd)

\* t occurs in s
Contains(s, t) ==
    \E i \in 1..(Len(s) - Len(t) + 1) : SubSeq(s, i, i + Len(t) - 1) = t

\* The tag that spells each member of the enumeration.
TagOf ==
    [a \in GgufArchitecture |->
        CASE a = "Llama" -> "llama" [] a = "Mpt" -> "mpt" [] a = "Gptneox" -> "gptneox"
          [] a = "Gptj" -> "gptj" [] a = "Gpt2" -> "gpt2" [] a = "Bloom" -> "bloom"
          [] a = "Falcon" -> "falcon" [] a = "Mamba" -> "mamba" [] a = "Rwkv" -> "rwkv"
          [] a = "Phi2" -> "phi2"]

\* The load read the container and found an architecture tag in it.
Resolved == last # None /\ L.arch # None
ArchResult == Unwrap(L.arch)
Tag == Unwrap(L.container.tag)

\* C1: resolution of a tag of the known set succeeds with the enumeration member of
\* that name; resolution of any other tag fails, the message holds the tag as it was
\* given, and the load returns that message as its error.
C1_ArchitectureResolution ==
    Resolved =>
        /\ Tag \in {TagOf[a] : a \in GgufArchitecture} =>
              /\ ArchResult.ok
              /\ ArchResult.val \in GgufArchitecture
              /\ TagOf[ArchResult.val] = Tag
        /\ Tag \notin {TagOf[a] : a \in GgufArchitecture} =>
              /\ ~ArchResult.ok
              /\ Contains(ArchResult.err, Tag)
              /\ L.outcome = "Err"
              /\ L.err.msg = ArchResult.err
              /\ pipeline = None

\* C1 witness: a load failed on the tag "phi3" with a message that holds "phi3".
C1_Witness ==
    /\ Resolved
    /\ Tag = "phi3"
    /\ ~ArchResult.ok
    /\ L.outcome = "Err"
    /\ Contains(L.err.msg, "phi3")

\* A load resolved each tag of the known set.
C1_KnownTagsResolved == Resolved /\ Tag = "gptj" /\ ArchResult.val = "Gptj"

\* C4: on every loaded pipeline is_lora is true exactly for the static-LoRA kind and
\* is_xlora() is true exactly for the adapter-aware variant with is_lora false; a
\* static-LoRA load has the adapter-aware variant, is_lora and not is_xlora(); a
\* plain load has neither flag.
C4_AdapterModeFlags ==
    pipeline # None =>
        /\ P.is_lora <=> (loader.kind = "LoraGGUF")
        /\ is_xlora(P) <=> (P.model = "XLoraLlama" /\ ~P.is_lora)
        /\ loader.kind = "LoraGGUF" =>
              P.model = "XLoraLlama" /\ P.is_lora /\ ~is_xlora(P)
        /\ loader.kind = "QuantizedGGUF" => ~P.is_lora /\ ~is_xlora(P)
        /\ loader.kind = "XLoraGGUF" => ~P.is_lora /\ is_xlora(P)

\* C4 witness: a static-LoRA load returned a pipeline of the adapter-aware variant.
C4_Witness ==
    /\ pipeline # None
    /\ loader.kind = "LoraGGUF"
    /\ P.model = "XLoraLlama"
    /\ P.is_lora
    /\ ~is_xlora(P)

\* The adapter inputs of an X-LoRA load are all present.
AllAdapterPaths ==
    /\ L.paths.adapter_filenames
    /\ L.paths.adapter_configs
    /\ L.paths.classifier_path
    /\ L.paths.classifier_config
    /\ L.paths.ordering

\* An X-LoRA load of a LLaMA container, every adapter input present and a target
\* index configured, returned a pipeline that no forward call has used yet.
XLoraLoaded ==
    /\ pipeline # None
    /\ fwd = None
    /\ loader.kind = "XLoraGGUF"
    /\ IsSome(loader.tgt_non_granular_index)
    /\ Resolved /\ ArchResult.val = "Llama"
    /\ AllAdapterPaths

\* C2: the pipeline of an X-LoRA load of a LLaMA container with every adapter input
\* present reports is_xlora() and holds a Non-Granular state, shown by its accessor
\* get_non_granular_state, whose target index is the configured one and whose
\* counter is zero at construction.
C2_XLoraHoldsState ==
    XLoraLoaded
    => /\ is_xlora(P)
       /\ IsSome(get_non_granular_state(P))
       /\ Unwrap(get_non_granular_state(P)).tgt_non_granular_index =
              Unwrap(loader.tgt_non_granular_index)
       /\ Unwrap(get_non_granular_state(P)).non_granular_index = 0

\* The field the accessor should show: is_xlora() holds and the stored state has the
\* configured target index and a counter of zero.
XLoraStoredState ==
    XLoraLoaded
    => /\ is_xlora(P)
       /\ P.non_granular_state =
              Some([non_granular_index |-> 0,
                    tgt_non_granular_index |-> Unwrap(loader.tgt_non_granular_index)])

\* C3: a pipeline loaded with the plain or the static-LoRA kind holds no
\* Non-Granular state, whatever target index the loader has, and a forward call on
\* a static-LoRA pipeline hands none to the adapter-aware model.
C3_NoStateForPlainAndLora ==
    (pipeline # None /\ loader.kind \in {"QuantizedGGUF", "LoraGGUF"})
    => /\ P.non_granular_state = None
       /\ (fwd # None /\ F.call # None /\ loader.kind = "LoraGGUF")
             => Unwrap(F.call).non_granular_state = Some(None)

\* A forward call on a static-LoRA pipeline handed the adapter-aware model a state.
LoraForwardHandsState ==
    /\ pipeline # None
    /\ loader.kind = "LoraGGUF"
    /\ fwd # None /\ F.call # None
    /\ IsSome(Unwrap(Unwrap(F.call).non_granular_state))

\* An adapter input the kind needs is absent: the classifier weights count for the
\* X-LoRA kind only.
MissingAdapterInput ==
    \/ ~L.paths.adapter_filenames
    \/ ~L.paths.adapter_configs
    \/ ~L.paths.ordering
    \/ ~L.paths.classifier_config
    \/ (loader.kind = "XLoraGGUF" /\ ~L.paths.classifier_path)

\* Every collaborator of the load answered without failing.
AllAnswersOk ==
    L.answers.adapters_ok /\ L.answers.from_gguf_ok /\ L.answers.tokenizer_ok

\* C5: a LoRA or X-LoRA load of a readable LLaMA container with an adapter input
\* absent ends with an error value returned to the caller, and returns no pipeline.
C5_MissingAdapterConfiguration ==
    (/\ last # None
     /\ loader.kind \in {"LoraGGUF", "XLoraGGUF"}
     /\ Resolved /\ ArchResult.ok /\ ArchResult.val = "Llama"
     /\ AllAnswersOk
     /\ MissingAdapterInput)
    => L.outcome = "Err" /\ pipeline = None

\* The adapter tensor source of an adapter-bearing load was built: the files it is
\* read from are given and from_mmaped_safetensors read them.
AdapterSourceBuilt ==
    /\ L.paths.adapter_filenames
    /\ loader.kind = "XLoraGGUF" => L.paths.classifier_path
    /\ L.answers.adapters_ok

C6_PlainUnsupported ==
    /\ Resolved
    /\ ArchResult.ok /\ ArchResult.val = "Mpt"
    /\ loader.kind = "QuantizedGGUF"
    /\ L.err.msg = "Unsupported architecture 'Mpt'"

\* C7: a load whose first weight file cannot be opened or cannot be parsed ends with
\* an error that names the path of that file, and returns no pipeline.
C7_ContainerReadErrorNamesPath ==
    (last # None /\ L.container.status \in {"noopen", "malformed"})
    => /\ L.outcome = "Err"
       /\ L.err.path = Some(L.path)
       /\ pipeline = None

\* C8: a forward call in which calculate_inputs or the variant's forward raised an
\* error returns that error, unchanged, to its caller; a forward call ends with a
\* tensor or with an error value and in no other way.
C8_ForwardErrorsReturned ==
    fwd # None =>
        /\ F.outcome \in {"Ok", "Err"}
        /\ F.raised # None => F.outcome = "Err" /\ F.err = Unwrap(F.raised)

NoDuplicates(q) == \A i, j \in 1..Len(q) : q[i] = q[j] => i = j

C9_TemplateIsEot ==
    /\ pipeline # None
    /\ P.chat_template = "<|eot_id|>"
    /\ Len(eos_tok(P)) = 1

\* The full input the adapter-aware variant receives: the built one when there is
\* one, the primary input otherwise.
FullOr(full, primary) == IF IsSome(full) THEN Some(Unwrap(full)) ELSE Some(primary)

\* C10: calculate_inputs is asked for the full inputs exactly when is_xlora() is
\* true; the Llama variant receives the token ids, the offsets, the kernel offsets
\* and the context lengths; the Phi2 variant the token ids, the offsets and the
\* context lengths only; the adapter-aware variant the primary inputs and, for each
\* of token ids, offsets and kernel offsets, the full input built, or the primary
\* one when none was built.
C10_ForwardRouting ==
    fwd # None =>
        /\ F.is_xlora_arg = is_xlora(P)
        /\ F.call # None =>
              LET c == Unwrap(F.call)
                  mi == Unwrap(F.inputs)
              IN /\ c.model = P.model
                 /\ c.input_ids = mi.input_ids
                 /\ c.seqlen_offsets = mi.seqlen_offsets
                 /\ c.context_lens = mi.context_lens
                 /\ P.model = "Llama" =>
                       /\ c.seqlen_offsets_kernel = Some(mi.seqlen_offsets_kernel)
                       /\ c.input_ids_full = None
                       /\ c.seqlen_offsets_full = None
                       /\ c.seqlen_offsets_kernel_full = None
                 /\ P.model = "Phi2" =>
                       /\ c.seqlen_offsets_kernel = None
                       /\ c.input_ids_full = None
                       /\ c.seqlen_offsets_full = None
                       /\ c.seqlen_offsets_kernel_full = None
                 /\ P.model = "XLoraLlama" =>
                       /\ c.seqlen_offsets_kernel = Some(mi.seqlen_offsets_kernel)
                       /\ c.input_ids_full = FullOr(mi.input_ids_full, mi.input_ids)
                       /\ c.seqlen_offsets_full =
                              FullOr(mi.seqlen_offsets_full, mi.seqlen_offsets)
                       /\ c.seqlen_offsets_kernel_full =
                              FullOr(mi.seqlen_offsets_kernel_full,
                                     mi.seqlen_offsets_kernel)

\* C10 witness: a forward call on an X-LoRA pipeline asked for the full inputs, the
\* full token ids were built and the full kernel offsets were not, and the
\* adapter-aware variant received the full token ids and the primary kernel offsets.
C10_Witness ==
    /\ fwd # None
    /\ F.is_xlora_arg
    /\ F.call # None
    /\ Unwrap(F.call).model = "XLoraLlama"
    /\ Unwrap(F.inputs).seqlen_offsets_kernel_full = None
    /\ Unwrap(F.call).input_ids_full = Some("input_ids_full")
    /\ Unwrap(F.call).seqlen_offsets_kernel_full = Some("seqlen_offsets_kernel")

\* A forward call on a Phi2 pipeline: no kernel offsets, no full inputs asked for.
C10_Phi2Call ==
    /\ fwd # None
    /\ ~F.is_xlora_arg
    /\ F.call # None
    /\ Unwrap(F.call).model = "Phi2"
    /\ Unwrap(F.call).seqlen_offsets_kernel = None

====
